---- MODULE Spec2Model ----
(***************************************************************************)
(* Model of the DSPy worker (src/services/dspy_worker/app): the budget     *)
(* tracker, the best-result store, the job runner and the worker loop.     *)
(*                                                                         *)
(* Units.  usd is counted in thousandths of a dollar and durations in      *)
(* clock ticks, so that every quantity is an integer; scores are integers. *)
(* A reference to a candidate object is its position in the stream of the  *)
(* candidate source (0 is Python's None).  Python's None for a reason is   *)
(* the string "none".                                                      *)
(*                                                                         *)
(* Limits objects.  schemas.BudgetLimits declares max_calls, max_tokens    *)
(* and max_usd and forbids every other key, so an object it validated has  *)
(* no max_duration_seconds attribute.  budget.py reads the limits by       *)
(* attribute only, so it also runs on an object that has the attribute     *)
(* (settings.BudgetProfile declares all four).  Both kinds are inputs.     *)
(***************************************************************************)
EXTENDS Integers, Sequences, FiniteSets, TLC

\* ---------------------------------------------------------------- bounds

\* Longest stream a candidate source yields.
MaxCandidates == 3

\* ------------------------------------------------------ program constants

MaxCallsCeiling == 10000
MaxTokensCeiling == 10000000
\* 10_000 dollars, in thousandths of a dollar
MaxUsdCeiling == 10000000

\* ------------------------------------------------------------ input sets

None == 0

ReasonNone == "none"
MAX_CALLS == "max_calls"
MAX_TOKENS == "max_tokens"
MAX_USD == "max_usd"
MAX_DURATION == "max_duration_seconds"

BudgetLimitReason == {MAX_CALLS, MAX_TOKENS, MAX_USD, MAX_DURATION}

\* What one reading of the time source may add to the previous reading
\* (time.monotonic never goes back).
Ticks == {0, 1}

Scores == {1, 2}

\* Usage deltas a candidate may report (BudgetUsage with duration left 0).
UsageDeltas ==
    { [calls |-> 1, tokens |-> 1, usd |-> 1, duration_seconds |-> 0],
      [calls |-> 1, tokens |-> 2, usd |-> 0, duration_seconds |-> 0],
      [calls |-> 2, tokens |-> 0, usd |-> 0, duration_seconds |-> 0] }

CandidateResults == [score : Scores, usage : UsageDeltas]

RECURSIVE SeqsUpTo(_, _)
SeqsUpTo(S, n) ==
    IF n = 0 THEN {<< >>}
    ELSE LET shorter == SeqsUpTo(S, n - 1)
         IN  shorter \cup { Append(s, x) : s \in {t \in shorter : Len(t) = n - 1}, x \in S }

CandidateStreams == SeqsUpTo(CandidateResults, MaxCandidates)

\* Keyword arguments handed to a limits constructor.
ThreeKwargs ==
    [max_calls : {0, 2}, max_tokens : {3}, max_usd : {0, 2}]
FourKwargs ==
    [max_calls : {2, 4}, max_tokens : {3}, max_usd : {2, 9},
     max_duration_seconds : {2, 9}]
Kwargs == ThreeKwargs \cup FourKwargs

LimitsClasses == {"BudgetLimits", "BudgetProfile"}

\* ------------------------------------------------------------ budget.py

ZeroUsage == [calls |-> 0, tokens |-> 0, usd |-> 0, duration_seconds |-> 0]

HasAttr(obj, name) == name \in DOMAIN obj

BudgetLimitsFields == {"max_calls", "max_tokens", "max_usd"}
BudgetProfileFields == BudgetLimitsFields \cup {"max_duration_seconds"}

\* pydantic validation of BudgetLimits: the three declared fields, each in
\* its range, and no other key (extra = forbid).
BudgetLimitsValid(kw) ==
    /\ DOMAIN kw = BudgetLimitsFields
    /\ kw.max_calls >= 1 /\ kw.max_calls <= MaxCallsCeiling
    /\ kw.max_tokens >= 1 /\ kw.max_tokens <= MaxTokensCeiling
    /\ kw.max_usd >= 0 /\ kw.max_usd <= MaxUsdCeiling

\* The dataclass BudgetProfile: all four fields are required, none checked.
BudgetProfileValid(kw) == DOMAIN kw = BudgetProfileFields

ConstructorAccepts(cls, kw) ==
    IF cls = "BudgetLimits" THEN BudgetLimitsValid(kw) ELSE BudgetProfileValid(kw)

\* Mutant: tokens is overwritten by the delta instead of added to.
record_usage_Overwrites(u, delta) ==
    [u EXCEPT !.calls = @ + delta.calls,
              !.tokens = delta.tokens,
              !.usd = @ + delta.usd]

record_usage(u, delta) ==
    [u EXCEPT !.calls = @ + delta.calls,
              !.tokens = @ + delta.tokens,
              !.usd = @ + delta.usd]

\* update_duration adding up what lies between the reading and the stored
\* value instead of storing the reading.
update_duration_Delta(u, d) == [u EXCEPT !.duration_seconds = d - @]

\* update_duration adding the reading to the stored value.
update_duration_Adds(u, d) == [u EXCEPT !.duration_seconds = @ + d]

update_duration(u, d) == [u EXCEPT !.duration_seconds = d]

AttributeError == "AttributeError"

\* Mutant: tokens is compared before calls.
check_limits_TokensFirst(u, limits) ==
    IF u.tokens >= limits.max_tokens THEN MAX_TOKENS
    ELSE IF u.calls >= limits.max_calls THEN MAX_CALLS
    ELSE IF u.usd >= limits.max_usd THEN MAX_USD
    ELSE IF ~HasAttr(limits, "max_duration_seconds") THEN AttributeError
    ELSE IF u.duration_seconds >= limits.max_duration_seconds THEN MAX_DURATION
    ELSE ReasonNone

\* check_limits comparing with > instead of >=.
check_limits_Strict(u, limits) ==
    IF u.calls > limits.max_calls THEN MAX_CALLS
    ELSE IF u.tokens > limits.max_tokens THEN MAX_TOKENS
    ELSE IF u.usd > limits.max_usd THEN MAX_USD
    ELSE IF ~HasAttr(limits, "max_duration_seconds") THEN AttributeError
    ELSE IF u.duration_seconds > limits.max_duration_seconds THEN MAX_DURATION
    ELSE ReasonNone

\* The value check_limits returns, or AttributeError when it raises.
check_limits(u, limits) ==
    IF u.calls >= limits.max_calls THEN MAX_CALLS
    ELSE IF u.tokens >= limits.max_tokens THEN MAX_TOKENS
    ELSE IF u.usd >= limits.max_usd THEN MAX_USD
    ELSE IF ~HasAttr(limits, "max_duration_seconds") THEN AttributeError
    ELSE IF u.duration_seconds >= limits.max_duration_seconds THEN MAX_DURATION
    ELSE ReasonNone

\* ----------------------------------------------------------- storage.py

\* Mutant: a candidate that only equals the retained score replaces it.
save_if_better_OnTies(best, candidate, stream) ==
    IF best = None \/ stream[candidate].score >= stream[best].score
    THEN candidate
    ELSE best

\* best and candidate are references into stream; the new value of best.
save_if_better(best, candidate, stream) ==
    IF best = None \/ stream[candidate].score > stream[best].score
    THEN candidate
    ELSE best

\* ---------------------------------------------------------- executor.py

StaticTokens == 256
\* 0.01 dollar, in thousandths of a dollar
StaticUsd == 10
StaticScore == 0

MinOf(a, b) == IF a <= b THEN a ELSE b

\* A static candidate that ignores the job's budget.
StaticJobExecutor_Uncapped(j) ==
    << [ score |-> StaticScore,
         usage |-> [ calls |-> 1,
                     tokens |-> StaticTokens,
                     usd |-> StaticUsd,
                     duration_seconds |-> 0 ] ] >>

\* The stream of StaticJobExecutor.iterate_candidates(j): one candidate.
StaticJobExecutor(j) ==
    << [ score |-> StaticScore,
         usage |-> [ calls |-> 1,
                     tokens |-> MinOf(StaticTokens, j.budget.max_tokens),
                     usd |-> MinOf(StaticUsd, j.budget.max_usd),
                     duration_seconds |-> 0 ] ] >>

\* What self._executor.iterate_candidates(j) yields: a SequenceExecutor
\* yields the list it was built with (given), whatever the job.
iterate_candidates(cls, j, given) ==
    IF cls = "StaticJobExecutor" THEN StaticJobExecutor(j) ELSE given

\* ------------------------------------------------------------- variables

VARIABLES
    kwargs,            \* keyword arguments given to the limits constructor
    limits_class,      \* the constructor they are given to
    job,               \* the JobPayload being run: [job_id, budget], or NoJob
    executor,          \* JobRunner._executor: the class of the candidate source
    stream,            \* what the candidate source yields for this job
    pulled,            \* candidates requested from the source and obtained
    candidate,         \* run's loop variable (a reference, None before the loop)
    clock,             \* the last reading of the time source
    start_time,        \* run's start_time
    usage,             \* budget_tracker._usage
    best,              \* best_store.best (a reference)
    hard_stop_reason,  \* run's hard_stop_reason
    elapsed_log,       \* history: the elapsed time fed to the tracker after each candidate
    outcome,           \* the JobRunOutcome run returned, or NoOutcome
    error,             \* the exception that ended the run or the construction
    pc,                \* the position of the (single) thread of control
    queue,             \* InMemoryQueueClient._queue
    enqueued,          \* history: number of jobs ever enqueued
    enqueue_log,       \* history: the ids of the jobs enqueued, in order
    shutdown_event,    \* WorkerService._shutdown_event
    records,           \* InMemoryRunStatusStore._records
    status_log,        \* history: the records given to update, in order
    metrics,           \* the MetricsRecorder's counters and histograms
    log,               \* history: the lifecycle log events, in order
    pool,              \* the worker tasks that do not hold the thread of control
    active             \* the worker task that holds it

runner_vars ==
    << job, stream, pulled, candidate, clock, start_time, usage, best,
       hard_stop_reason, elapsed_log, outcome, error >>
harness_vars == << kwargs, limits_class, executor >>
pool_vars == << pool, active >>
worker_vars ==
    << queue, enqueued, enqueue_log, shutdown_event, records, status_log,
       metrics, log >>
vars == << harness_vars, runner_vars, pc, worker_vars, pool_vars >>

NoJob == [job_id |-> "none"]
NoOutcome == [returned |-> FALSE]
NoError == "none"
ValidationError == "ValidationError"

HarnessJobId == "job-1"

\* -------------------------------------------------- worker.py: JobRunner

\* One call of self._time_source(): the reading it may return.
Readings == { clock + t : t \in Ticks }

\* The candidates consumed so far, as references.
Consumed == 1..pulled

\* A run that goes on with the tracker and the store of the run before.
RunStart_KeepsTracker ==
    /\ pc = "run_start"
    /\ \E now \in Readings :
         /\ clock' = now
         /\ start_time' = now
    /\ usage' = usage
    /\ best' = best
    /\ hard_stop_reason' = ReasonNone
    /\ pulled' = 0
    /\ candidate' = None
    /\ elapsed_log' = << >>
    /\ stream' = iterate_candidates(executor, job, stream)
    /\ pc' = "pull"
    /\ UNCHANGED << job, outcome, error, harness_vars, pool_vars, worker_vars >>

\* run, lines 45-50: the start time, a fresh tracker and a fresh store, and
\* the call of iterate_candidates that opens the loop.
RunStart ==
    /\ pc = "run_start"
    /\ \E now \in Readings :
         /\ clock' = now
         /\ start_time' = now
    /\ usage' = ZeroUsage
    /\ best' = None
    /\ hard_stop_reason' = ReasonNone
    /\ pulled' = 0
    /\ candidate' = None
    /\ elapsed_log' = << >>
    /\ stream' = iterate_candidates(executor, job, stream)
    /\ pc' = "pull"
    /\ UNCHANGED << job, outcome, error, harness_vars, pool_vars, worker_vars >>

\* run, line 50: the async for asks the source for its next candidate.
PullCandidate ==
    /\ pc = "pull"
    /\ pulled < Len(stream)
    /\ pulled' = pulled + 1
    /\ candidate' = pulled + 1
    /\ pc' = "save"
    /\ UNCHANGED << job, stream, clock, start_time, usage, best, hard_stop_reason,
                    elapsed_log, outcome, error, harness_vars, pool_vars, worker_vars >>

\* Mutant: the limits are also checked when the source is exhausted.
SourceExhausted_ChecksLimits ==
    /\ pc = "pull"
    /\ pulled = Len(stream)
    /\ hard_stop_reason' =
           IF check_limits(usage, job.budget) = AttributeError
           THEN hard_stop_reason
           ELSE check_limits(usage, job.budget)
    /\ pc' = "finish"
    /\ UNCHANGED << job, stream, pulled, candidate, clock, start_time, usage, best,
                    elapsed_log, outcome, error, harness_vars, pool_vars, worker_vars >>

\* run, line 50: the source is exhausted and the loop ends.
SourceExhausted ==
    /\ pc = "pull"
    /\ pulled = Len(stream)
    /\ pc' = "finish"
    /\ UNCHANGED << runner_vars, harness_vars, pool_vars, worker_vars >>

\* run, line 51.
SaveIfBetter ==
    /\ pc = "save"
    /\ best' = save_if_better(best, candidate, stream)
    /\ pc' = "record"
    /\ UNCHANGED << job, stream, pulled, candidate, clock, start_time, usage,
                    hard_stop_reason, elapsed_log, outcome, error,
                    harness_vars, pool_vars, worker_vars >>

\* Mutant: a delta that would take a field to its limit is not recorded.
RecordUsage_SkipsOverLimit ==
    /\ pc = "record"
    /\ usage' =
           LET u == record_usage(usage, stream[candidate].usage)
           IN  IF \/ u.calls >= job.budget.max_calls
                  \/ u.tokens >= job.budget.max_tokens
                  \/ u.usd >= job.budget.max_usd
               THEN usage
               ELSE u
    /\ pc' = "duration"
    /\ UNCHANGED << job, stream, pulled, candidate, clock, start_time, best,
                    hard_stop_reason, elapsed_log, outcome, error,
                    harness_vars, pool_vars, worker_vars >>

\* run, line 52.
RecordUsage ==
    /\ pc = "record"
    /\ usage' = record_usage(usage, stream[candidate].usage)
    /\ pc' = "duration"
    /\ UNCHANGED << job, stream, pulled, candidate, clock, start_time, best,
                    hard_stop_reason, elapsed_log, outcome, error,
                    harness_vars, pool_vars, worker_vars >>

\* run, line 53.
UpdateDuration ==
    /\ pc = "duration"
    /\ \E now \in Readings :
         /\ clock' = now
         /\ usage' = update_duration(usage, now - start_time)
         /\ elapsed_log' = Append(elapsed_log, now - start_time)
    /\ pc' = "check"
    /\ UNCHANGED << job, stream, pulled, candidate, start_time, best,
                    hard_stop_reason, outcome, error, harness_vars, pool_vars, worker_vars >>

\* Mutant: the loop goes on after a reason is returned.
CheckLimits_NoBreak ==
    /\ pc = "check"
    /\ check_limits(usage, job.budget) # AttributeError
    /\ hard_stop_reason' = check_limits(usage, job.budget)
    /\ pc' = "pull"
    /\ UNCHANGED << job, stream, pulled, candidate, clock, start_time, usage, best,
                    elapsed_log, outcome, error, harness_vars, pool_vars, worker_vars >>

\* run, lines 54-56, when check_limits returns: the reason is kept and a
\* reason other than None leaves the loop.
CheckLimits ==
    /\ pc = "check"
    /\ check_limits(usage, job.budget) # AttributeError
    /\ hard_stop_reason' = check_limits(usage, job.budget)
    /\ pc' = IF hard_stop_reason' # ReasonNone THEN "finish" ELSE "pull"
    /\ UNCHANGED << job, stream, pulled, candidate, clock, start_time, usage, best,
                    elapsed_log, outcome, error, harness_vars, pool_vars, worker_vars >>

\* run, line 54, when check_limits raises: the exception leaves run, which
\* returns no outcome.
CheckLimitsRaises ==
    /\ pc = "check"
    /\ check_limits(usage, job.budget) = AttributeError
    /\ error' = AttributeError
    /\ pc' = "run_raised"
    /\ UNCHANGED << job, stream, pulled, candidate, clock, start_time, usage, best,
                    hard_stop_reason, elapsed_log, outcome, harness_vars, pool_vars, worker_vars >>

JobRunOutcome(d, u, reason, b) ==
    [ job_id |-> job.job_id,
      duration_seconds |-> d,
      usage |-> u,
      hard_stop |-> (reason # ReasonNone),
      hard_stop_reason |-> reason,
      best_candidate |-> b ]

\* The end of run reporting the usage as it was before the final
\* measurement.
RunFinish_StaleUsage ==
    /\ pc = "finish"
    /\ \E now \in Readings :
         /\ clock' = now
         /\ usage' = update_duration(usage, now - start_time)
         /\ outcome' = JobRunOutcome(now - start_time, usage, hard_stop_reason, best)
    /\ pc' = "returned"
    /\ UNCHANGED << job, stream, pulled, candidate, start_time, best,
                    hard_stop_reason, elapsed_log, error, harness_vars, pool_vars,
                    worker_vars >>

\* The end of run with the limits checked once more on the final
\* measurement.
RunFinish_ChecksLimits ==
    /\ pc = "finish"
    /\ \E now \in Readings :
         LET final == check_limits(update_duration(usage, now - start_time), job.budget)
             reason == IF hard_stop_reason # ReasonNone \/ final = AttributeError
                       THEN hard_stop_reason
                       ELSE final
         IN  /\ clock' = now
             /\ usage' = update_duration(usage, now - start_time)
             /\ outcome' = JobRunOutcome(now - start_time, usage', reason, best)
    /\ pc' = "returned"
    /\ UNCHANGED << job, stream, pulled, candidate, start_time, best,
                    hard_stop_reason, elapsed_log, error, harness_vars, pool_vars,
                    worker_vars >>

\* run, lines 58-69.
RunFinish ==
    /\ pc = "finish"
    /\ \E now \in Readings :
         /\ clock' = now
         /\ usage' = update_duration(usage, now - start_time)
         /\ outcome' = JobRunOutcome(now - start_time, usage', hard_stop_reason, best)
    /\ pc' = "returned"
    /\ UNCHANGED << job, stream, pulled, candidate, start_time, best,
                    hard_stop_reason, elapsed_log, error, harness_vars, pool_vars, worker_vars >>

RunnerStep ==
    \/ RunStart
    \/ PullCandidate
    \/ SourceExhausted
    \/ SaveIfBetter
    \/ RecordUsage
    \/ UpdateDuration
    \/ CheckLimits
    \/ CheckLimitsRaises
    \/ RunFinish

\* ------------------------------------ the runner driven as the tests do

EmptyMetrics ==
    [ job_duration_seconds |-> [count |-> 0, sum |-> 0],
      job_cost_usd |-> [count |-> 0, sum |-> 0],
      job_calls_total |-> 0,
      job_hard_stop_total |-> 0,
      job_hard_stop_reason_total |-> [r \in BudgetLimitReason |-> 0] ]

\* The WorkerService instances that share the queue and the status store,
\* each with its task; one of them in the single-worker service.
Workers == {"w1", "w2"}
FirstWorker == "w1"

\* A task created and not yet run, its service's shutdown flag clear.
NotStarted == [pc |-> "not_started", shutdown_event |-> FALSE]

\* The entry of the task that holds the thread of control: its position
\* and flag are pc and shutdown_event.
Running == [pc |-> "running", shutdown_event |-> FALSE]

WorkerIdle ==
    /\ queue = << >>
    /\ enqueued = 0
    /\ enqueue_log = << >>
    /\ shutdown_event = FALSE
    /\ records = << >>
    /\ status_log = << >>
    /\ metrics = EmptyMetrics
    /\ log = << >>
    /\ pool = [w \in Workers |-> IF w = FirstWorker THEN Running ELSE NotStarted]
    /\ active = FirstWorker

RunnerIdle ==
    /\ job = NoJob
    /\ pulled = 0
    /\ candidate = None
    /\ clock = 0
    /\ start_time = 0
    /\ usage = ZeroUsage
    /\ best = None
    /\ hard_stop_reason = ReasonNone
    /\ elapsed_log = << >>
    /\ outcome = NoOutcome
    /\ error = NoError

\* A JobRunner over a SequenceExecutor, before the limits are constructed.
Init ==
    /\ kwargs \in Kwargs
    /\ limits_class \in LimitsClasses
    /\ executor = "SequenceExecutor"
    /\ stream \in CandidateStreams
    /\ RunnerIdle
    /\ WorkerIdle
    /\ pc = "construct"

\* The limits constructor, then _job_payload: the job whose budget is the
\* constructed object, or the constructor's ValidationError.
ConstructJob ==
    /\ pc = "construct"
    /\ IF ConstructorAccepts(limits_class, kwargs)
       THEN /\ job' = [job_id |-> HarnessJobId, budget |-> kwargs]
            /\ pc' = "run_start"
            /\ error' = error
       ELSE /\ job' = job
            /\ pc' = "rejected"
            /\ error' = ValidationError
    /\ UNCHANGED << stream, pulled, candidate, clock, start_time, usage, best,
                    hard_stop_reason, elapsed_log, outcome, harness_vars, pool_vars, worker_vars >>

Next ==
    \/ ConstructJob
    \/ RunnerStep

Spec == Init /\ [][Next]_vars

\* ----------------------------------------------- status.py, metrics.py

RUNNING == "running"
COMPLETED == "completed"
HARD_STOPPED == "hard_stopped"

RunStatusRecord(id, st, reason, b) ==
    [job_id |-> id, status |-> st, hard_stop_reason |-> reason, best_candidate |-> b]

\* An update that keeps the record of the updated job only.
StoreUpdate_DropsOthers(recs, record) ==
    [id \in {record.job_id} |-> record]

\* InMemoryRunStatusStore.update: the dictionary after the call.
StoreUpdate(recs, record) ==
    [id \in DOMAIN recs \cup {record.job_id} |->
        IF id = record.job_id THEN record ELSE recs[id]]

NoRecord == [job_id |-> "none"]

\* InMemoryRunStatusStore.get.
StoreGet(recs, id) == IF id \in DOMAIN recs THEN recs[id] ELSE NoRecord

observe(h, v) == [count |-> h.count + 1, sum |-> h.sum + v]

\* record_job counting jobs instead of calls.
record_job_CountsJobs(m, d, u, hard_stop, reason) ==
    LET seen == [m EXCEPT !.job_duration_seconds = observe(@, d),
                          !.job_cost_usd = observe(@, u.usd),
                          !.job_calls_total = @ + 1]
    IN  IF ~hard_stop THEN seen
        ELSE IF reason = ReasonNone
             THEN [seen EXCEPT !.job_hard_stop_total = @ + 1]
             ELSE [seen EXCEPT !.job_hard_stop_total = @ + 1,
                               !.job_hard_stop_reason_total[reason] = @ + 1]

\* MetricsRecorder.record_job: the recorder after the call.
record_job(m, d, u, hard_stop, reason) ==
    LET seen == [m EXCEPT !.job_duration_seconds = observe(@, d),
                          !.job_cost_usd = observe(@, u.usd),
                          !.job_calls_total = @ + u.calls]
    IN  IF ~hard_stop THEN seen
        ELSE IF reason = ReasonNone
             THEN [seen EXCEPT !.job_hard_stop_total = @ + 1]
             ELSE [seen EXCEPT !.job_hard_stop_total = @ + 1,
                               !.job_hard_stop_reason_total[reason] = @ + 1]

\* --------------------------------------------- worker.py: WorkerService

\* Jobs ever put on the queue.
MaxJobs == 2

JobIds == {"j1", "j2"}

\* Budgets of the jobs put on the queue: one that the static candidate
\* takes to each of its limits, one it leaves under all three, and one
\* that has a duration ceiling.
WorkerBudgets ==
    { [max_calls |-> 1, max_tokens |-> 1000, max_usd |-> 1000],
      [max_calls |-> 2, max_tokens |-> 256, max_usd |-> 1000],
      [max_calls |-> 2, max_tokens |-> 1000, max_usd |-> 10],
      [max_calls |-> 2, max_tokens |-> 1000, max_usd |-> 1000],
      [max_calls |-> 2, max_tokens |-> 1000, max_usd |-> 1000,
       max_duration_seconds |-> 1] }

JobPayloads == [job_id : JobIds, budget : WorkerBudgets]

NoJobId == "-"

\* The worker task is parked at an await (or has not run yet, or is over):
\* only then do the other tasks of the event loop run.
WorkerSuspended == pc \in {"not_started", "waiting", "stopped", "crashed"}

\* An enqueue that puts the job at the head of the queue.
Enqueue_AtFront ==
    /\ WorkerSuspended
    /\ enqueued < MaxJobs
    /\ \E j \in JobPayloads :
         /\ queue' = << j >> \o queue
         /\ enqueue_log' = Append(enqueue_log, j.job_id)
    /\ enqueued' = enqueued + 1
    /\ UNCHANGED << runner_vars, harness_vars, pool_vars, pc, shutdown_event, records,
                    status_log, metrics, log >>

\* InMemoryQueueClient.enqueue, called by another task.
Enqueue ==
    /\ WorkerSuspended
    /\ enqueued < MaxJobs
    /\ \E j \in JobPayloads :
         /\ queue' = Append(queue, j)
         /\ enqueue_log' = Append(enqueue_log, j.job_id)
    /\ enqueued' = enqueued + 1
    /\ UNCHANGED << runner_vars, harness_vars, pool_vars, pc, shutdown_event, records,
                    status_log, metrics, log >>

\* A shutdown that flips the flag.
Shutdown_Toggles ==
    /\ WorkerSuspended
    /\ shutdown_event' = ~shutdown_event
    /\ UNCHANGED << runner_vars, harness_vars, pool_vars, pc, queue, enqueued,
                    enqueue_log, records, status_log, metrics, log >>

\* WorkerService.shutdown, called by another task.
Shutdown ==
    /\ WorkerSuspended
    /\ shutdown_event' = TRUE
    /\ UNCHANGED << runner_vars, harness_vars, pool_vars, pc, queue, enqueued, enqueue_log, records,
                    status_log, metrics, log >>

\* run_forever, line 88: the task's first step.
WorkerStart ==
    /\ pc = "not_started"
    /\ log' = Append(log, << "worker_started", NoJobId >>)
    /\ pc' = "get_job"
    /\ UNCHANGED << runner_vars, harness_vars, pool_vars, queue, enqueued, enqueue_log, shutdown_event,
                    records, status_log, metrics >>

\* run_forever, line 90, iterate_jobs and get_job: the next job is taken
\* from the queue, or the task parks until there is one.
GetJob ==
    /\ pc = "get_job"
    /\ IF queue = << >>
       THEN /\ pc' = "waiting"
            /\ UNCHANGED << job, queue >>
       ELSE /\ job' = Head(queue)
            /\ queue' = Tail(queue)
            /\ pc' = "check_shutdown"
    /\ UNCHANGED << stream, pulled, candidate, clock, start_time, usage, best,
                    hard_stop_reason, elapsed_log, outcome, error, harness_vars, pool_vars,
                    enqueued, enqueue_log, shutdown_event, records, status_log, metrics, log >>

\* get_job, queue.py line 31: the parked task resumes with a job.
GetJobResumes ==
    /\ pc = "waiting"
    /\ queue # << >>
    /\ job' = Head(queue)
    /\ queue' = Tail(queue)
    /\ pc' = "check_shutdown"
    /\ UNCHANGED << stream, pulled, candidate, clock, start_time, usage, best,
                    hard_stop_reason, elapsed_log, outcome, error, harness_vars, pool_vars,
                    enqueued, enqueue_log, shutdown_event, records, status_log, metrics, log >>

\* A cancellation that run_forever lets through to the awaiter of the
\* task.
Cancel_Propagates ==
    /\ pc \in {"not_started", "waiting"}
    /\ log' = IF pc = "waiting"
              THEN Append(log, << "worker_stopped", NoJobId >>)
              ELSE log
    /\ error' = IF pc = "waiting" THEN "CancelledError" ELSE error
    /\ pc' = IF pc = "waiting" THEN "crashed" ELSE "stopped"
    /\ UNCHANGED << job, stream, pulled, candidate, clock, start_time, usage, best,
                    hard_stop_reason, elapsed_log, outcome, harness_vars, pool_vars,
                    queue, enqueued, enqueue_log, shutdown_event, records, status_log,
                    metrics >>

\* A cancellation that is also delivered while a job's candidates are
\* pulled, as it would be if the runner parked at that await.
Cancel_MidRun ==
    /\ pc \in {"not_started", "waiting", "pull"}
    /\ log' = IF pc = "not_started"
              THEN log
              ELSE log \o << << "worker_cancelled", NoJobId >>,
                             << "worker_stopped", NoJobId >> >>
    /\ pc' = "stopped"
    /\ UNCHANGED << runner_vars, harness_vars, pool_vars, queue, enqueued, enqueue_log, shutdown_event,
                    records, status_log, metrics >>

\* Cancellation of the task (main.py line 40) while it is parked in
\* get_job or before its first step: run_forever, lines 94-97.
Cancel ==
    /\ pc \in {"not_started", "waiting"}
    /\ log' = IF pc = "waiting"
              THEN log \o << << "worker_cancelled", NoJobId >>,
                             << "worker_stopped", NoJobId >> >>
              ELSE log
    /\ pc' = "stopped"
    /\ UNCHANGED << runner_vars, harness_vars, pool_vars, queue, enqueued, enqueue_log, shutdown_event,
                    records, status_log, metrics >>

\* run_forever, lines 91-93 and 97: the flag is read once a job is in hand.
CheckShutdown ==
    /\ pc = "check_shutdown"
    /\ IF shutdown_event
       THEN /\ pc' = "stopped"
            /\ log' = Append(log, << "worker_stopped", NoJobId >>)
       ELSE /\ pc' = "process_job"
            /\ log' = log
    /\ UNCHANGED << runner_vars, harness_vars, pool_vars, queue, enqueued, enqueue_log, shutdown_event,
                    records, status_log, metrics >>

\* _process_job starting the run without the RUNNING record.
JobReceived_NoRunningRecord ==
    /\ pc = "process_job"
    /\ log' = Append(log, << "job_received", job.job_id >>)
    /\ outcome' = NoOutcome
    /\ pc' = "run_start"
    /\ UNCHANGED << job, stream, pulled, candidate, clock, start_time, usage, best,
                    hard_stop_reason, elapsed_log, error, harness_vars, pool_vars,
                    queue, enqueued, enqueue_log, shutdown_event, metrics,
                    records, status_log >>

\* _process_job, lines 103-115: the event, the RUNNING record, and the call
\* of run.
JobReceived ==
    /\ pc = "process_job"
    /\ log' = Append(log, << "job_received", job.job_id >>)
    /\ LET record == RunStatusRecord(job.job_id, RUNNING, ReasonNone, None)
       IN  /\ records' = StoreUpdate(records, record)
           /\ status_log' = Append(status_log, record)
    /\ outcome' = NoOutcome
    /\ pc' = "run_start"
    /\ UNCHANGED << job, stream, pulled, candidate, clock, start_time, usage, best,
                    hard_stop_reason, elapsed_log, error, harness_vars, pool_vars,
                    queue, enqueued, enqueue_log, shutdown_event, metrics >>

\* _process_job with record_job called for hard-stopped runs only.
RecordJob_OnlyHardStops ==
    /\ pc = "returned"
    /\ metrics' = IF outcome.hard_stop
                  THEN record_job(metrics, outcome.duration_seconds, outcome.usage,
                                  outcome.hard_stop, outcome.hard_stop_reason)
                  ELSE metrics
    /\ pc' = "write_terminal"
    /\ UNCHANGED << runner_vars, harness_vars, pool_vars, queue, enqueued, enqueue_log, shutdown_event,
                    records, status_log, log >>

\* _process_job, lines 116-121.
RecordJob ==
    /\ pc = "returned"
    /\ metrics' = record_job(metrics, outcome.duration_seconds, outcome.usage,
                             outcome.hard_stop, outcome.hard_stop_reason)
    /\ pc' = "write_terminal"
    /\ UNCHANGED << runner_vars, harness_vars, pool_vars, queue, enqueued, enqueue_log, shutdown_event,
                    records, status_log, log >>

\* _process_job writing COMPLETED whatever the outcome.
WriteTerminal_AlwaysCompleted ==
    /\ pc = "write_terminal"
    /\ LET record == RunStatusRecord(job.job_id, COMPLETED, ReasonNone,
                                     outcome.best_candidate)
       IN  /\ records' = StoreUpdate(records, record)
           /\ status_log' = Append(status_log, record)
    /\ log' = Append(log, << IF outcome.hard_stop THEN "job_hard_stop" ELSE "job_completed",
                             outcome.job_id >>)
    /\ pc' = "get_job"
    /\ UNCHANGED << runner_vars, harness_vars, pool_vars, queue, enqueued,
                    enqueue_log, shutdown_event, metrics >>

\* _process_job, lines 136-154.
WriteTerminal ==
    /\ pc = "write_terminal"
    /\ LET record ==
               IF outcome.hard_stop
               THEN RunStatusRecord(job.job_id, HARD_STOPPED,
                                    outcome.hard_stop_reason, outcome.best_candidate)
               ELSE RunStatusRecord(job.job_id, COMPLETED, ReasonNone,
                                    outcome.best_candidate)
       IN  /\ records' = StoreUpdate(records, record)
           /\ status_log' = Append(status_log, record)
    /\ log' = Append(log, << IF outcome.hard_stop THEN "job_hard_stop" ELSE "job_completed",
                             outcome.job_id >>)
    /\ pc' = "get_job"
    /\ UNCHANGED << runner_vars, harness_vars, pool_vars, queue, enqueued, enqueue_log, shutdown_event,
                    metrics >>

\* A loop that outlives the exception of a job and goes on to the next
\* one, the failed job's record left as it is.
JobRaises_Continues ==
    /\ pc = "run_raised"
    /\ log' = log
    /\ pc' = "get_job"
    /\ UNCHANGED << runner_vars, harness_vars, pool_vars, queue, enqueued,
                    enqueue_log, shutdown_event, records, status_log, metrics >>

\* The exception run raised leaves _process_job at line 115 and
\* run_forever through its finally clause (line 97): the task is over.
JobRaises ==
    /\ pc = "run_raised"
    /\ log' = Append(log, << "worker_stopped", NoJobId >>)
    /\ pc' = "crashed"
    /\ UNCHANGED << runner_vars, harness_vars, pool_vars, queue, enqueued, enqueue_log, shutdown_event,
                    records, status_log, metrics >>

\* A WorkerService as main.py builds it, its task created and not yet run.
WorkerInit ==
    /\ kwargs = [max_calls |-> 1, max_tokens |-> 1, max_usd |-> 0]
    /\ limits_class = "BudgetLimits"
    /\ executor = "StaticJobExecutor"
    /\ stream = << >>
    /\ RunnerIdle
    /\ WorkerIdle
    /\ pc = "not_started"

WorkerNext ==
    \/ Enqueue
    \/ Shutdown
    \/ Cancel
    \/ WorkerStart
    \/ GetJob
    \/ GetJobResumes
    \/ CheckShutdown
    \/ JobReceived
    \/ RunnerStep
    \/ RecordJob
    \/ WriteTerminal
    \/ JobRaises

WorkerSpec == WorkerInit /\ [][WorkerNext]_vars

\* ------------------------------- the worker with collaborators that fail

SourceError == "SourceError"
MetricsError == "MetricsError"

\* The lists a raising candidate source is built with.
RaisingStreams ==
    { << >>,
      << [score |-> 1, usage |-> [calls |-> 1, tokens |-> 1, usd |-> 1,
                                  duration_seconds |-> 0]] >>,
      << [score |-> 1, usage |-> [calls |-> 1, tokens |-> 1, usd |-> 1,
                                  duration_seconds |-> 0]],
         [score |-> 2, usage |-> [calls |-> 1, tokens |-> 2, usd |-> 0,
                                  duration_seconds |-> 0]] >> }

\* run, line 50, with a JobExecutor whose iterator raises when it is asked
\* for its next candidate (executor.py, lines 23-27, raises before the
\* first one): the exception leaves run, whose tracker and store are
\* locals, and run returns no outcome.
SourceRaises ==
    /\ pc = "pull"
    /\ executor = "RaisingExecutor"
    /\ error' = SourceError
    /\ pc' = "run_raised"
    /\ UNCHANGED << job, stream, pulled, candidate, clock, start_time, usage, best,
                    hard_stop_reason, elapsed_log, outcome, harness_vars, pool_vars, worker_vars >>

\* _process_job, lines 116-121, with a recorder whose record_job raises:
\* no handler is around the call, so the exception leaves _process_job and
\* run_forever (through its finally clause, line 97).
RecordJobRaises ==
    /\ pc = "returned"
    /\ error' = MetricsError
    /\ log' = Append(log, << "worker_stopped", NoJobId >>)
    /\ pc' = "crashed"
    /\ UNCHANGED << job, stream, pulled, candidate, clock, start_time, usage, best,
                    hard_stop_reason, elapsed_log, outcome, harness_vars, pool_vars,
                    queue, enqueued, enqueue_log, shutdown_event, records, status_log, metrics >>

\* A WorkerService whose runner holds a raising candidate source.
FaultyWorkerInit ==
    /\ kwargs = [max_calls |-> 1, max_tokens |-> 1, max_usd |-> 0]
    /\ limits_class = "BudgetLimits"
    /\ executor = "RaisingExecutor"
    /\ stream \in RaisingStreams
    /\ RunnerIdle
    /\ WorkerIdle
    /\ pc = "not_started"

FaultyWorkerNext ==
    \/ WorkerNext
    \/ SourceRaises
    \/ RecordJobRaises

FaultyWorkerSpec == FaultyWorkerInit /\ [][FaultyWorkerNext]_vars

\* ------------------------------- several workers on one queue and store

\* The event loop gives the thread of control to another worker's task:
\* it does so only when the running task is parked in get_job, has not
\* run yet or is over. A parked task keeps nothing but its position and
\* its service's shutdown flag.
Switch(w) ==
    /\ WorkerSuspended
    /\ w # active
    /\ pool' = [pool EXCEPT ![active] = [pc |-> pc, shutdown_event |-> shutdown_event],
                            ![w] = Running]
    /\ pc' = pool[w].pc
    /\ shutdown_event' = pool[w].shutdown_event
    /\ active' = w
    /\ UNCHANGED << runner_vars, harness_vars, queue, enqueued, enqueue_log, records,
                    status_log, metrics, log >>

MultiWorkerInit == WorkerInit

MultiWorkerNext ==
    \/ WorkerNext
    \/ \E w \in Workers : Switch(w)

MultiWorkerSpec == MultiWorkerInit /\ [][MultiWorkerNext]_vars

\* ------------------------------ the runner over the static executor

\* Budgets around the static candidate's figures: token ceilings under,
\* at and over 256, cost ceilings at zero, under, at and over 0.01 dollar,
\* with and without a duration ceiling.
StaticKwargs ==
    [max_calls : {1, 2}, max_tokens : {100, 256, 1000}, max_usd : {0, 5, 10, 1000}]
    \cup [max_calls : {1, 2}, max_tokens : {100, 256, 1000},
          max_usd : {0, 5, 10, 1000}, max_duration_seconds : {1}]

\* A JobRunner built as WorkerService.__init__ builds it, given one job.
StaticInit ==
    /\ kwargs \in StaticKwargs
    /\ limits_class \in LimitsClasses
    /\ executor = "StaticJobExecutor"
    /\ stream = << >>
    /\ RunnerIdle
    /\ WorkerIdle
    /\ pc = "construct"

StaticSpec == StaticInit /\ [][Next]_vars

\* ------------------------------------------------- vocabulary of the claims

RunnerPcs ==
    {"run_start", "pull", "save", "record", "duration", "check", "finish",
     "returned", "run_raised"}

\* The sum of one usage field over the first n candidates of the stream.
RECURSIVE SumDelta(_, _)
SumDelta(f, n) == IF n = 0 THEN 0 ELSE SumDelta(f, n - 1) + stream[n].usage[f]

\* Whether a dimension has reached its limit right after candidate i, from
\* the stream, the job's limits and the elapsed time measured then.
CallsReached(i) == SumDelta("calls", i) >= job.budget.max_calls
TokensReached(i) == SumDelta("tokens", i) >= job.budget.max_tokens
UsdReached(i) == SumDelta("usd", i) >= job.budget.max_usd
DurationReached(i) ==
    /\ HasAttr(job.budget, "max_duration_seconds")
    /\ elapsed_log[i] >= job.budget.max_duration_seconds
Reached(i) == CallsReached(i) \/ TokensReached(i) \/ UsdReached(i) \/ DurationReached(i)

FirstReached(i) ==
    IF CallsReached(i) THEN MAX_CALLS
    ELSE IF TokensReached(i) THEN MAX_TOKENS
    ELSE IF UsdReached(i) THEN MAX_USD
    ELSE IF DurationReached(i) THEN MAX_DURATION
    ELSE ReasonNone

\* The candidates after which the elapsed time has been measured.
Measured == 1..Len(elapsed_log)

Min(S) == CHOOSE x \in S : \A y \in S : x <= y

\* How many candidates a run of this stream is to consume.
ToConsume ==
    IF \E i \in Measured : Reached(i)
    THEN Min({i \in Measured : Reached(i)})
    ELSE Len(stream)

\* ------------------------------------------------------------------ C1

C3_CheckLimitsPrecedence ==
    pc = "check" =>
        LET r == check_limits(usage, job.budget)
            l == job.budget
        IN  IF usage.calls >= l.max_calls THEN r = MAX_CALLS
            ELSE IF usage.tokens >= l.max_tokens THEN r = MAX_TOKENS
            ELSE IF usage.usd >= l.max_usd THEN r = MAX_USD
            ELSE /\ r \in {MAX_DURATION, ReasonNone}
                 /\ r = MAX_DURATION <=> usage.duration_seconds >= l.max_duration_seconds

\* ------------------------------------------------------------------ C4

\* C4: check_limits never raises on limits that passed BudgetLimits
\* validation: when calls, tokens and usd are under their limits the
\* duration comparison yields MAX_DURATION or none.
C4_CheckLimitsNeverRaises ==
    (limits_class = "BudgetLimits" /\ pc \in RunnerPcs) =>
        /\ error # AttributeError
        /\ pc = "check" => check_limits(usage, job.budget) \in BudgetLimitReason \cup {ReasonNone}

\* ------------------------------------------------------------------ C5

\* The store has seen every consumed candidate except, while save_if_better
\* is still to be called for it, the last one.
Saved == IF pc = "save" THEN 1..(pulled - 1) ELSE 1..pulled

C6_NoPullAfterLimitReached ==
    /\ \A i \in Measured : Reached(i) => i = pulled
    /\ (pc = "returned" /\ outcome.hard_stop) =>
           /\ pulled = Min({i \in Measured : Reached(i)})
           /\ outcome.best_candidate \in 1..pulled

\* A hard stop leaves in the stream a candidate that scores higher than
\* the best candidate of the outcome.
C6_Witness ==
    /\ pc = "returned"
    /\ outcome.hard_stop
    /\ pulled < Len(stream)
    /\ \E j \in (pulled + 1)..Len(stream) :
           stream[j].score > stream[outcome.best_candidate].score

\* ------------------------------------------------------------------ C7

C8_DurationHardStop ==
    (limits_class = "BudgetLimits" /\ HasAttr(kwargs, "max_duration_seconds")) =>
        /\ pc # "rejected"
        /\ (/\ pc = "returned"
            /\ pulled > 0
            /\ elapsed_log[pulled] >= kwargs.max_duration_seconds
            /\ ~(CallsReached(pulled) \/ TokensReached(pulled) \/ UsdReached(pulled))) =>
               /\ outcome.hard_stop
               /\ outcome.hard_stop_reason = MAX_DURATION
               /\ outcome.usage.duration_seconds = clock - start_time

\* ------------------------------------------------------------------ C9

\* C9: when the source yields no candidate, run returns hard_stop = false,
\* no reason, calls, tokens and usd all zero and no best candidate, for
\* every budget, max_usd = 0 included.
C9_EmptyStreamCompletes ==
    (pc = "returned" /\ Len(stream) = 0) =>
        /\ ~outcome.hard_stop
        /\ outcome.hard_stop_reason = ReasonNone
        /\ outcome.usage.calls = 0
        /\ outcome.usage.tokens = 0
        /\ outcome.usage.usd = 0
        /\ outcome.best_candidate = None

\* An empty stream under a budget whose max_usd is 0.
C9_Witness ==
    /\ pc = "returned"
    /\ Len(stream) = 0
    /\ job.budget.max_usd = 0
    /\ pulled = 0
    /\ ~outcome.hard_stop

\* ------------------------------------------------------------------ C10

\* The worker is between jobs, or its task is over: no run is in progress.
NoRunInProgress ==
    pc \in {"not_started", "get_job", "waiting", "check_shutdown", "stopped", "crashed"}

\* C10: the status records written for each job the worker starts
\* processing are RUNNING and then exactly one of COMPLETED or
\* HARD_STOPPED for the same job: the records come in such pairs, RUNNING
\* is never written again within a run, and once the processing of a job
\* has ended the last record written is not RUNNING.
C10_RunningThenOneTerminal ==
    /\ \A i \in 1..Len(status_log) :
           IF i % 2 = 1
           THEN status_log[i].status = RUNNING
           ELSE /\ status_log[i].status \in {COMPLETED, HARD_STOPPED}
                /\ status_log[i].job_id = status_log[i - 1].job_id
    /\ NoRunInProgress => Len(status_log) % 2 = 0

\* ------------------------------------------------------------------ C11

\* C11: when the candidate source raises after k >= 0 candidates were
\* consumed, the caller of run gets the failure and also the usage
\* accumulated from those k candidates, and the run is not reported as a
\* normal completion.
C11_SourceFailureKeepsUsage ==
    (error = SourceError /\ pc \in {"run_raised", "crashed"}) =>
        /\ outcome # NoOutcome
        /\ outcome.usage.calls = SumDelta("calls", pulled)
        /\ outcome.usage.tokens = SumDelta("tokens", pulled)
        /\ outcome.usage.usd = SumDelta("usd", pulled)

\* ------------------------------------------------------------------ C12

\* The jobs the worker has started to process.
StartedJobs == { i \in 1..Len(status_log) : status_log[i].status = RUNNING }

C13_JobFailureDoesNotEndLoop ==
    (error # NoError /\ NoRunInProgress) =>
        /\ pc # "crashed"
        /\ pc \in {"get_job", "waiting", "check_shutdown", "stopped"}

\* ------------------------------------------------------------------ C14

\* C14: a failure of record_job does not leave job processing and does
\* not lose the outcome: the terminal record of the job, COMPLETED or
\* HARD_STOPPED as its outcome says, is still written.
C14_MetricsFailureKeepsOutcome ==
    (error = MetricsError /\ NoRunInProgress) =>
        /\ pc # "crashed"
        /\ StoreGet(records, outcome.job_id).status =
               IF outcome.hard_stop THEN HARD_STOPPED ELSE COMPLETED

\* ------------------------------------------------------------------ C15

\* The terminal records written so far.
TerminalRecords ==
    { i \in 1..Len(status_log) : status_log[i].status \in {COMPLETED, HARD_STOPPED} }

\* Every call of record_job observes one duration.
record_job_calls == metrics.job_duration_seconds.count

Dequeued == enqueued - Len(queue)

\* C16: every job the worker removes from the queue is processed to a
\* terminal status, so that between jobs, and once run_forever has
\* returned, the jobs removed are as many as the terminal records: no job
\* is taken after the shutdown flag is set and then dropped.
C16_NoJobDequeuedThenDropped ==
    (error = NoError /\ pc \in {"not_started", "get_job", "waiting", "stopped"}) =>
        Dequeued = Cardinality(TerminalRecords)

\* ------------------------------------------------------------------ C17

\* The steps the worker's task takes by itself, without another task
\* enqueuing a job or cancelling it.
WorkerTaskStep ==
    \/ WorkerStart
    \/ GetJob
    \/ GetJobResumes
    \/ CheckShutdown
    \/ JobReceived
    \/ RunnerStep
    \/ RecordJob
    \/ WriteTerminal
    \/ JobRaises

\* C17: after shutdown() run_forever returns without any further job
\* being enqueued: as long as the flag is set and run_forever is not
\* over, the worker's task has a step of its own to take, in the middle
\* of a job and on an empty queue alike.
C17_ShutdownLetsLoopReturn ==
    (shutdown_event /\ pc \notin {"stopped", "crashed"}) => ENABLED WorkerTaskStep

\* ------------------------------------------------------------------ C18

\* The record written at position i + 1 is the terminal record of the
\* job whose RUNNING record is at position i.
HasTerminalRecord(i) ==
    /\ i < Len(status_log)
    /\ status_log[i + 1].job_id = status_log[i].job_id
    /\ status_log[i + 1].status \in {COMPLETED, HARD_STOPPED}

\* C18: stopping the worker never interrupts a job mid-run: when
\* run_forever has returned, on the shutdown flag or on the cancellation
\* that follows it, every job that got a RUNNING record has run to its
\* end and got its terminal record.
C18_StopNeverInterruptsJob ==
    pc = "stopped" => \A i \in StartedJobs : HasTerminalRecord(i)

\* shutdown() and then the cancellation ended a worker that had processed
\* a job and was waiting for the next one.
C18_Witness ==
    /\ pc = "stopped"
    /\ shutdown_event
    /\ StartedJobs # {}
    /\ Len(log) >= 2
    /\ log[Len(log) - 1] = << "worker_cancelled", NoJobId >>

\* ------------------------------------------------------------------ C19

UsageFields == {"calls", "tokens", "usd", "duration_seconds"}

UpdatesOf(id) == { i \in 1..Len(status_log) : status_log[i].job_id = id }

\* The record passed to the most recent update for one job.
LatestUpdate(id) ==
    IF UpdatesOf(id) = {} THEN NoRecord
    ELSE status_log[CHOOSE i \in UpdatesOf(id) : \A k \in UpdatesOf(id) : k <= i]

\* C20: after any sequence of updates, get(job_id) returns the record of
\* the most recent update for that job_id, or none when there was no
\* update for it; an update for one job therefore leaves what get
\* returns for every other job as it was.
C20_GetReturnsLatestUpdate ==
    \A id \in JobIds : StoreGet(records, id) = LatestUpdate(id)

\* Both jobs have records, the last update was for one of them and the
\* other one's terminal record is still what get returns.
C20_Witness ==
    /\ Len(status_log) = 4
    /\ \E a, b \in JobIds :
          /\ a # b
          /\ UpdatesOf(a) = {1, 2}
          /\ UpdatesOf(b) = {3, 4}
          /\ StoreGet(records, a) = status_log[2]
          /\ StoreGet(records, b) = status_log[4]

\* ------------------------------------------------------------------ C21

\* The jobs whose stored status is RUNNING.
RunningIds == { id \in DOMAIN records : records[id].status = RUNNING }

\* C21: one worker has at most one active run at any time: at most one
\* job id it wrote has RUNNING as its stored status, and when it has taken
\* the next job from the queue the job before has had its metrics
\* recorded and its terminal record written.
C21_AtMostOneActiveRun ==
    /\ Cardinality(RunningIds) <= 1
    /\ pc \in {"check_shutdown", "process_job"} =>
          /\ RunningIds = {}
          /\ \A i \in StartedJobs : HasTerminalRecord(i)
          /\ record_job_calls = Cardinality(StartedJobs)

\* The second job is running, the first one's record is terminal and its
\* metrics are recorded.
C21_Witness ==
    /\ pc = "pull"
    /\ Cardinality(RunningIds) = 1
    /\ Cardinality(DOMAIN records) = 2
    /\ record_job_calls = 1

\* ------------------------------------------------------------------ C22

\* C22: with the in-memory queue and one worker, jobs are processed in
\* the order of their enqueuing: the k-th job to get a RUNNING record is
\* the k-th job enqueued, and its terminal record is written before the
\* RUNNING record of the job after it.
C22_ProcessedInEnqueueOrder ==
    /\ Len(status_log) <= 2 * Cardinality(StartedJobs)
    /\ \A k \in 1..Cardinality(StartedJobs) :
          /\ status_log[2 * k - 1].status = RUNNING
          /\ status_log[2 * k - 1].job_id = enqueue_log[k]
          /\ 2 * k < Len(status_log) => HasTerminalRecord(2 * k - 1)

\* Two different jobs were enqueued and both were processed.
C22_Witness ==
    /\ Len(enqueue_log) = 2
    /\ enqueue_log[1] # enqueue_log[2]
    /\ Len(status_log) = 4
    /\ status_log[2].job_id = enqueue_log[1]
    /\ status_log[3].job_id = enqueue_log[2]

\* ------------------------------------------------------------------ C23

\* C23: every run of the worker's one JobRunner starts from zero usage
\* and no retained candidate, and its outcome is that of its own job: the
\* usage is the sum over the job's own consumed candidates, the duration
\* is measured from the run's own start, the reason comes from the job's
\* own limits and the best candidate is one of the job's own.
C23_RunsAreIndependent ==
    /\ (pc = "pull" /\ pulled = 0) =>
          /\ usage = ZeroUsage
          /\ best = None
          /\ hard_stop_reason = ReasonNone
    /\ pc = "returned" =>
          /\ outcome.job_id = job.job_id
          /\ outcome.usage.calls = SumDelta("calls", pulled)
          /\ outcome.usage.tokens = SumDelta("tokens", pulled)
          /\ outcome.usage.usd = SumDelta("usd", pulled)
          /\ outcome.usage.duration_seconds = clock - start_time
          /\ outcome.duration_seconds = clock - start_time
          /\ outcome.best_candidate \in 0..pulled
          /\ pulled > 0 => outcome.hard_stop_reason = FirstReached(pulled)

\* The second job of a worker has returned with the usage of its own
\* single candidate, the first job's call being in the metrics.
C23_Witness ==
    /\ pc = "returned"
    /\ Cardinality(StartedJobs) = 2
    /\ metrics.job_calls_total = 1
    /\ outcome.usage.calls = 1
    /\ outcome.best_candidate = 1

\* ------------------------------------------------------------------ C24

\* No job id was enqueued twice.
DistinctIds ==
    \A i, k \in 1..Len(enqueue_log) : i # k => enqueue_log[i] # enqueue_log[k]

\* The ids of the jobs taken from the queue.
DequeuedIds ==
    { enqueue_log[i] : i \in 1..Len(enqueue_log) } \ { queue[i].job_id : i \in 1..Len(queue) }

\* No worker is in the middle of a job.
AllWorkersParked ==
    /\ pc \in {"not_started", "waiting", "stopped"}
    /\ \A w \in Workers \ {active} : pool[w].pc \in {"not_started", "waiting", "stopped"}

\* C24: with several workers on one queue and one store and all job ids
\* distinct, every job taken from the queue is run by exactly one worker
\* (it has exactly one RUNNING record) and its stored record ends as its
\* own terminal status, whatever the interleaving of the workers.
C24_EachJobRunOnceToTerminal ==
    (DistinctIds /\ error = NoError /\ AllWorkersParked) =>
        \A id \in DequeuedIds :
            /\ Cardinality({ i \in UpdatesOf(id) : status_log[i].status = RUNNING }) = 1
            /\ StoreGet(records, id).job_id = id
            /\ StoreGet(records, id).status \in {COMPLETED, HARD_STOPPED}

\* ------------------------------------------------------------------ C25

\* How many times a job id was enqueued.
TimesEnqueued(id) == Cardinality({ i \in 1..Len(enqueue_log) : enqueue_log[i] = id })

\* What a reader of the store may see change for one job id in one step.
ReaderSeesInOrder(id, before, after) ==
    \/ /\ before = NoRecord
       /\ after # NoRecord
       /\ after.job_id = id
       /\ after.status = RUNNING
    \/ /\ before # NoRecord
       /\ after # NoRecord
       /\ before.status = RUNNING
       /\ after.job_id = id
       /\ after.status \in {COMPLETED, HARD_STOPPED}
    \/ /\ before # NoRecord
       /\ after # NoRecord
       /\ TimesEnqueued(id) > 1
       /\ before.status \in {COMPLETED, HARD_STOPPED}
       /\ after.job_id = id
       /\ after.status = RUNNING

\* C25: with one worker the store is free of races: what get returns for
\* a job changes only from none to RUNNING and from RUNNING to the job's
\* terminal record (and to RUNNING again only for an id enqueued again),
\* and while one job's record is RUNNING no record of another job is
\* written.
C25_ReaderSeesRunningThenTerminal ==
    [][\A id \in JobIds :
          /\ StoreGet(records', id) # StoreGet(records, id) =>
                 ReaderSeesInOrder(id, StoreGet(records, id), StoreGet(records', id))
          /\ (\E other \in RunningIds : other # id) =>
                 StoreGet(records', id) = StoreGet(records, id)]_vars

\* The second job's terminal record is about to be written over its
\* RUNNING record, the first job's terminal record being in the store.
C25_Witness ==
    /\ pc = "write_terminal"
    /\ DistinctIds
    /\ RunningIds = {job.job_id}
    /\ \E id \in DOMAIN records : records[id].status \in {COMPLETED, HARD_STOPPED}

\* ------------------------------------------------------------------ C26

\* The record given to the most recent update of the store.
LastWritten == status_log[Len(status_log)]

\* C26: the terminal record the worker writes matches the outcome run
\* returned: HARD_STOPPED with the outcome's reason, which is not none,
\* when the outcome is a hard stop, COMPLETED with no reason otherwise,
\* and with the outcome's best candidate in both cases.
C26_TerminalRecordMatchesOutcome ==
    (status_log # << >> /\ LastWritten.status \in {COMPLETED, HARD_STOPPED}) =>
        /\ outcome # NoOutcome
        /\ LastWritten.job_id = outcome.job_id
        /\ LastWritten.best_candidate = outcome.best_candidate
        /\ IF outcome.hard_stop
           THEN /\ LastWritten.status = HARD_STOPPED
                /\ LastWritten.hard_stop_reason = outcome.hard_stop_reason
                /\ LastWritten.hard_stop_reason # ReasonNone
           ELSE /\ LastWritten.status = COMPLETED
                /\ LastWritten.hard_stop_reason = ReasonNone
        /\ StoreGet(records, outcome.job_id) = LastWritten

\* A hard stop on tokens was written with its reason and its candidate.
C26_Witness ==
    /\ status_log # << >>
    /\ LastWritten.status = HARD_STOPPED
    /\ LastWritten.hard_stop_reason = MAX_TOKENS
    /\ LastWritten.best_candidate = 1
    /\ outcome # NoOutcome
    /\ outcome.hard_stop

\* ------------------------------------------------------------------ C27

\* The hard stops the recorder should have counted: the HARD_STOPPED
\* records, and the hard stop just recorded whose record is not yet
\* written.
HardStopsRecorded ==
    Cardinality({ i \in 1..Len(status_log) : status_log[i].status = HARD_STOPPED })
    + (IF pc = "write_terminal" /\ outcome.hard_stop THEN 1 ELSE 0)

ReasonCountersSum ==
    metrics.job_hard_stop_reason_total[MAX_CALLS]
    + metrics.job_hard_stop_reason_total[MAX_TOKENS]
    + metrics.job_hard_stop_reason_total[MAX_USD]
    + metrics.job_hard_stop_reason_total[MAX_DURATION]

\* What one step does to the counters: the step that records a job adds
\* the outcome's usage.calls to the call counter and, for a hard stop
\* only, one to the hard-stop counter and to the counter of its reason;
\* no other step changes a counter.
CountersStep ==
    IF pc = "returned" /\ pc' = "write_terminal"
    THEN /\ metrics'.job_calls_total = metrics.job_calls_total + outcome.usage.calls
         /\ metrics'.job_hard_stop_total =
                metrics.job_hard_stop_total + (IF outcome.hard_stop THEN 1 ELSE 0)
         /\ \A r \in BudgetLimitReason :
                metrics'.job_hard_stop_reason_total[r] =
                    metrics.job_hard_stop_reason_total[r]
                    + (IF outcome.hard_stop /\ outcome.hard_stop_reason = r THEN 1 ELSE 0)
    ELSE metrics' = metrics

EventsNamed(name) == { i \in 1..Len(log) : log[i][1] = name }

\* C30: for every job processed the log has job_received and then exactly
\* one of job_completed and job_hard_stop for the same job, and that
\* final event agrees with the terminal record: there are as many
\* job_hard_stop events as HARD_STOPPED records and as many job_completed
\* events as COMPLETED records.
C30_LifecycleEventsInOrder ==
    /\ \A i \in EventsNamed("job_received") :
          IF i = Len(log)
          THEN ~NoRunInProgress
          ELSE /\ log[i + 1][1] \in {"job_completed", "job_hard_stop"}
               /\ log[i + 1][2] = log[i][2]
    /\ \A i \in EventsNamed("job_completed") \cup EventsNamed("job_hard_stop") :
          /\ i > 1
          /\ log[i - 1][1] = "job_received"
    /\ Cardinality(EventsNamed("job_hard_stop")) =
           Cardinality({ i \in 1..Len(status_log) : status_log[i].status = HARD_STOPPED })
    /\ Cardinality(EventsNamed("job_completed")) =
           Cardinality({ i \in 1..Len(status_log) : status_log[i].status = COMPLETED })

\* ------------------------------------------------------------------ C31

\* The RUNNING records written for one job id, as positions of the history.
RunningUpdatesOf(id) == { i \in UpdatesOf(id) : status_log[i].status = RUNNING }

\* The position of the most recent update for a job id that has one.
LatestPosition(id) == CHOOSE i \in UpdatesOf(id) : \A k \in UpdatesOf(id) : k <= i

\* C31: when one worker takes the same job id a second time after its
\* first run got a terminal record, the stored record is overwritten with
\* a RUNNING record without reason and without candidate, and once the
\* second run is over the stored record is the second run's terminal
\* record.
C31_SecondRunOverwritesRecord ==
    \A id \in JobIds :
        Cardinality(RunningUpdatesOf(id)) = 2 =>
            /\ \A i \in RunningUpdatesOf(id) :
                   status_log[i] = RunStatusRecord(id, RUNNING, ReasonNone, None)
            /\ StoreGet(records, id) = status_log[LatestPosition(id)]
            /\ ~NoRunInProgress =>
                   StoreGet(records, id) = RunStatusRecord(id, RUNNING, ReasonNone, None)
            /\ NoRunInProgress =>
                   /\ Cardinality(UpdatesOf(id)) = 4
                   /\ StoreGet(records, id).status \in {COMPLETED, HARD_STOPPED}

\* ------------------------------------------------------------------ C32

StaticReachesLimit ==
    \/ job.budget.max_calls = 1
    \/ job.budget.max_tokens <= 256
    \/ job.budget.max_usd <= 10

\* C34: the wired executor yields exactly one candidate per job, with one
\* call, min(256, max_tokens) tokens and min(0.01, max_usd) dollars; so
\* the final tokens and usd never exceed their limits, and the run is a
\* hard stop whenever max_calls = 1, max_tokens <= 256 or max_usd <= 0.01,
\* with the reason chosen in the order calls, tokens, usd.
C34_StaticExecutorOneCandidate ==
    /\ pc \in {"pull", "save", "record", "duration", "check", "finish", "returned",
               "run_raised"} =>
          /\ Len(stream) = 1
          /\ stream[1].usage.calls = 1
          /\ stream[1].usage.tokens =
                 (IF job.budget.max_tokens < 256 THEN job.budget.max_tokens ELSE 256)
          /\ stream[1].usage.usd =
                 (IF job.budget.max_usd < 10 THEN job.budget.max_usd ELSE 10)
    /\ pc = "returned" =>
          /\ pulled = 1
          /\ outcome.usage.calls = 1
          /\ outcome.usage.tokens <= job.budget.max_tokens
          /\ outcome.usage.usd <= job.budget.max_usd
          /\ StaticReachesLimit =>
                /\ outcome.hard_stop
                /\ outcome.hard_stop_reason =
                       (IF job.budget.max_calls = 1 THEN MAX_CALLS
                        ELSE IF job.budget.max_tokens <= 256 THEN MAX_TOKENS
                        ELSE MAX_USD)
    /\ pc = "run_raised" => ~StaticReachesLimit

\* A budget whose cost ceiling is under 0.01 dollar: the candidate costs
\* the ceiling and the run is a hard stop on usd.
C34_Witness ==
    /\ pc = "returned"
    /\ job.budget.max_calls = 2
    /\ job.budget.max_tokens = 1000
    /\ job.budget.max_usd = 5
    /\ outcome.usage.usd = 5
    /\ outcome.usage.tokens = 256
    /\ outcome.hard_stop_reason = MAX_USD

\* ------------------------------------------------------------------ C35

\* C35: when the task is cancelled while it waits on the queue,
\* run_forever swallows the cancellation and returns normally: it logs
\* worker_cancelled and worker_stopped, raises nothing, writes no status
\* record, records no metrics and takes nothing from the queue.
C35_CancelWhileWaitingReturns ==
    [][(pc = "waiting" /\ pc' \in {"stopped", "crashed"}) =>
          /\ pc' = "stopped"
          /\ error' = error
          /\ records' = records
          /\ status_log' = status_log
          /\ metrics' = metrics
          /\ queue' = queue
          /\ log' = log \o << << "worker_cancelled", NoJobId >>,
                              << "worker_stopped", NoJobId >> >>]_vars

\* A worker that had processed one job was cancelled on the empty queue,
\* its shutdown flag never set; the job's record is still in the store.
C35_Witness ==
    /\ pc = "stopped"
    /\ ~shutdown_event
    /\ error = NoError
    /\ Len(log) >= 2
    /\ log[Len(log) - 1] = << "worker_cancelled", NoJobId >>
    /\ Len(status_log) = 2
    /\ StoreGet(records, status_log[2].job_id) = status_log[2]
    /\ record_job_calls = 1

\* ------------------------------------------------------------------ C36

\* C36: shutdown() only sets the flag: a step that changes the flag
\* changes nothing else, neither the queue nor the store nor the metrics
\* nor the position of the worker, and once set the flag stays set,
\* however often shutdown() is called.
C36_ShutdownOnlySetsFlag ==
    [][/\ shutdown_event => shutdown_event'
       /\ shutdown_event' # shutdown_event =>
             /\ shutdown_event'
             /\ UNCHANGED << runner_vars, pc, queue, enqueued, enqueue_log, records,
                             status_log, metrics, log >>]_vars

\* shutdown() was called on a running worker that had processed a job
\* and has a job waiting in its queue.
C36_Witness ==
    /\ shutdown_event
    /\ pc = "waiting"
    /\ Len(queue) = 1
    /\ Len(status_log) = 2
    /\ record_job_calls = 1

====
